---- MODULE Spec2Model ----
(***************************************************************************)
(* State-machine model of the three backtracking solvers of the repository *)
(*   Q1.py  SudokuSolver    (is_valid, solve_sudoku, count_all_solutions,   *)
(*                           generate_puzzle)                               *)
(*   Q2.py  TaskScheduler   (build_conflict_graph, is_valid_assignment,     *)
(*                           solve_backtracking, solve)                     *)
(*   Q3.py  ShoppingSolver  (solve_all_combinations,                        *)
(*                           solve_first_combination, find_all_solutions,   *)
(*                           find_one_solution)                             *)
(* Every recursive search is unfolded into an explicit call stack: one     *)
(* frame per active invocation, one action per step of the function body.  *)
(* Each client has its own specification over the common variable list     *)
(* (SpecSudoku and SpecSolve, SpecCount, SpecGen, SpecSched, SpecShop),     *)
(* the variables of the other clients staying at their idle values;        *)
(* SpecGrids and SpecSearches take several clients together, a behaviour   *)
(* being a run of one of them.                                             *)
(***************************************************************************)
EXTENDS Integers, Sequences, FiniteSets, TLC

VARIABLES
    client,         \* the entry point the client program calls
    board,          \* Q1: the 9x9 grid handed to solve_sudoku, board[i][j], 0 = empty
    board0,         \* Q1: history variable, the grid as it was when the call was made
    sstack,         \* Q1: call stack of solve_sudoku, innermost frame last
    sret,           \* Q1: value returned by the last finished invocation
    placed,         \* Q1: history variable, number of trial assignments board[i][j] = num
    undone,         \* Q1: history variable, number of undo assignments board[i][j] = 0
    solution_count, \* Q1: self.solution_count
    all_solutions,  \* Q1: self.all_solutions, the list of recorded grids
    max_solutions,  \* Q1: the argument max_solutions of count_all_solutions
    count_called,   \* Q1: the client has called count_all_solutions
    gen_board,      \* Q1: self.board, the grid generate_puzzle builds
    num_filled,     \* Q1: the argument num_filled of generate_puzzle
    ensure_solvable,\* Q1: the argument ensure_solvable of generate_puzzle
    max_tries,      \* Q1: the argument max_tries of generate_puzzle
    tries,          \* Q1: number of rounds of "for _ in range(max_tries)" begun
    filled,         \* Q1: the local variable filled
    attempts,       \* Q1: the local variable attempts
    gen_pc,         \* Q1: position of generate_puzzle
    gen_exit,       \* Q1: history variable, the return statement that was taken
    tasks,          \* Q2: self.tasks, sequence of [start, end]
    max_resources,  \* Q2: self.max_resources (K)
    resource,       \* Q2: the resource field of each task, NoResource = None
    conflict_graph, \* Q2: self.conflict_graph, task position -> list of positions
    tstack,         \* Q2: call stack of solve_backtracking
    tret,           \* Q2: value returned by the last finished invocation
    assigned,       \* Q2: history variable, number of assignments task.resource = id
    unassigned,     \* Q2: history variable, number of undo assignments task.resource = None
    items,          \* Q3: self.items, sequence of [name, price, max_quantity]
    budget,         \* Q3: self.budget
    min_items,      \* Q3: self.min_items
    solutions,      \* Q3: self.solutions, sequence of <<combo, cost>>
    current_combo,  \* Q3: the list current_combo shared by all frames
    cstack,         \* Q3: call stack of solve_all_combinations / solve_first_combination
    cret,           \* Q3: value returned by the last finished solve_first_combination
    phase,          \* Q3: position of the client: which find_* call is running
    all_result,     \* Q3: list returned by find_all_solutions
    one_result      \* Q3: value returned by find_one_solution

sudokuVars == <<board, board0, sstack, sret, placed, undone>>
countVars == <<solution_count, all_solutions, max_solutions, count_called>>
genVars == <<gen_board, num_filled, ensure_solvable, max_tries, tries, filled, attempts,
             gen_pc, gen_exit>>
schedVars == <<tasks, max_resources, resource, conflict_graph, tstack, tret,
               assigned, unassigned>>
shopVars == <<items, budget, min_items, solutions, current_combo, cstack, cret,
              phase, all_result, one_result>>
vars == <<client, sudokuVars, countVars, genVars, schedVars, shopVars>>

\* Python's None where it stands for "no value returned (yet)".
None == "None"

Last(s) == s[Len(s)]
Pop(s) == SubSeq(s, 1, Len(s) - 1)
ReplaceTop(s, f) == [s EXCEPT ![Len(s)] = f]

(***************************************************************************)
(*                         Q1.py : SudokuSolver                            *)
(***************************************************************************)

\* range(9): the side of the grid; range(3) / row % 3: the side of a box.
N == 9
Box == 3
Idx == 0 .. (N - 1)

\* The literal puzzle of main's TEST CASE 4.
known_puzzle ==
    << <<5, 3, 0, 0, 7, 0, 0, 0, 0>>,
       <<6, 0, 0, 1, 9, 5, 0, 0, 0>>,
       <<0, 9, 8, 0, 0, 0, 0, 6, 0>>,
       <<8, 0, 0, 0, 6, 0, 0, 0, 3>>,
       <<4, 0, 0, 8, 0, 3, 0, 0, 1>>,
       <<7, 0, 0, 0, 2, 0, 0, 0, 6>>,
       <<0, 6, 0, 0, 0, 0, 2, 8, 0>>,
       <<0, 0, 0, 4, 1, 9, 0, 0, 5>>,
       <<0, 0, 0, 0, 8, 0, 0, 7, 9>> >>

\* A Python list of lists indexed from 0.
Grid(rows) == [i \in Idx |-> [j \in Idx |-> rows[i + 1][j + 1]]]

\* Input family. PuzzleBase is known_puzzle in its first HoleRows rows and the
\* completion of known_puzzle below them; the first NumFree cells of FreeCells
\* (two clue cells, two empty cells, ...) are then overwritten by arbitrary
\* values of 0..9. The family holds solvable puzzles, locally valid puzzles
\* that have no completion, and grids with a repeated clue.
Completion ==
    << <<5, 3, 4, 6, 7, 8, 9, 1, 2>>,
       <<6, 7, 2, 1, 9, 5, 3, 4, 8>>,
       <<1, 9, 8, 3, 4, 2, 5, 6, 7>>,
       <<8, 5, 9, 7, 6, 1, 4, 2, 3>>,
       <<4, 2, 6, 8, 5, 3, 7, 9, 1>>,
       <<7, 1, 3, 9, 2, 4, 8, 5, 6>>,
       <<9, 6, 1, 5, 3, 7, 2, 8, 4>>,
       <<2, 8, 7, 4, 1, 9, 6, 3, 5>>,
       <<3, 4, 5, 2, 8, 6, 1, 7, 9>> >>

HoleRows == 5
NumFree == 2
FreeCells == << <<1, 0>>, <<0, 2>>, <<2, 1>>, <<0, 3>> >>

PuzzleBase ==
    [i \in Idx |-> IF i < HoleRows /\ i < N THEN Grid(known_puzzle)[i]
                                             ELSE Grid(Completion)[i]]

RECURSIVE Overwrite(_, _, _)
Overwrite(b, k, vals) ==
    IF k = 0 THEN b
    ELSE LET c == FreeCells[k]
         IN  Overwrite([b EXCEPT ![c[1]][c[2]] = vals[k]], k - 1, vals)

InputBoards == { Overwrite(PuzzleBase, NumFree, vals) : vals \in [1 .. NumFree -> 0 .. 9] }

\* is_valid(board, row, col, num), Q1.py 18-47
is_valid_no_column(b, row, col, num) ==
    LET start_row == row - (row % Box)
        start_col == col - (col % Box)
    IN  /\ \A x \in Idx : b[row][x] # num
        /\ \A i \in 0 .. (Box - 1) : \A j \in 0 .. (Box - 1) :
               b[i + start_row][j + start_col] # num

is_valid(b, row, col, num) ==
    LET start_row == row - (row % Box)
        start_col == col - (col % Box)
    IN  /\ \A x \in Idx : b[row][x] # num
        /\ \A x \in Idx : b[x][col] # num
        /\ \A i \in 0 .. (Box - 1) : \A j \in 0 .. (Box - 1) :
               b[i + start_row][j + start_col] # num

\* The loops "for i in range(9): for j in range(9): if board[i][j] == 0":
\* the first empty cell in row-major order (the grid has one).
EmptyCells(b) == { c \in Idx \X Idx : b[c[1]][c[2]] = 0 }

FirstEmpty(b) ==
    CHOOSE c \in EmptyCells(b) :
        \A d \in EmptyCells(b) : c[1] * N + c[2] <= d[1] * N + d[2]

\* The client calls solve_sudoku(board): the outermost frame is entered.
SudokuCall ==
    /\ sstack = <<>>
    /\ sret = None
    /\ sstack' = << [pc |-> "scan", i |-> 0, j |-> 0, num |-> 0] >>
    /\ UNCHANGED <<board, board0, sret, placed, undone>>

\* Lines 74-76 and 94: look for the next empty cell; with none left the
\* invocation returns True.
SolveScan ==
    /\ sstack # <<>>
    /\ Last(sstack).pc = "scan"
    /\ IF EmptyCells(board) = {}
       THEN /\ sstack' = Pop(sstack)
            /\ sret' = "True"
       ELSE LET c == FirstEmpty(board)
            IN  /\ sstack' = ReplaceTop(sstack,
                                  [pc |-> "try", i |-> c[1], j |-> c[2], num |-> 1])
                /\ sret' = sret
    /\ UNCHANGED <<board, board0, placed, undone>>

\* Lines 78-80: the candidate num is pruned by is_valid; the loop goes on.
SolveSkip ==
    /\ sstack # <<>>
    /\ LET f == Last(sstack)
       IN  /\ f.pc = "try"
           /\ f.num <= 9
           /\ ~is_valid(board, f.i, f.j, f.num)
           /\ sstack' = ReplaceTop(sstack, [f EXCEPT !.num = f.num + 1])
    /\ UNCHANGED <<board, board0, sret, placed, undone>>

\* Lines 80-84: a feasible num is written into the cell and solve_sudoku is
\* called recursively.
SolvePlace ==
    /\ sstack # <<>>
    /\ LET f == Last(sstack)
       IN  /\ f.pc = "try"
           /\ f.num <= 9
           /\ is_valid(board, f.i, f.j, f.num)
           /\ board' = [board EXCEPT ![f.i][f.j] = f.num]
           /\ sstack' = Append(ReplaceTop(sstack, [f EXCEPT !.pc = "wait"]),
                               [pc |-> "scan", i |-> 0, j |-> 0, num |-> 0])
    /\ sret' = None
    /\ placed' = placed + 1
    /\ UNCHANGED <<board0, undone>>

\* Lines 84-85: the recursive call returned True; so does this invocation.
SolveSuccess ==
    /\ sstack # <<>>
    /\ Last(sstack).pc = "wait"
    /\ sret = "True"
    /\ sstack' = Pop(sstack)
    /\ UNCHANGED <<board, board0, sret, placed, undone>>

\* Lines 84-88: the recursive call returned False; the cell is emptied again
\* and the loop goes on with the next num.
SolveBacktrackNoUndo ==
    /\ sstack # <<>>
    /\ LET f == Last(sstack)
       IN  /\ f.pc = "wait"
           /\ sret = "False"
           /\ sstack' = ReplaceTop(sstack, [f EXCEPT !.pc = "try", !.num = f.num + 1])
    /\ sret' = None
    /\ undone' = undone + 1
    /\ UNCHANGED <<board, board0, placed>>

SolveBacktrack ==
    /\ sstack # <<>>
    /\ LET f == Last(sstack)
       IN  /\ f.pc = "wait"
           /\ sret = "False"
           /\ board' = [board EXCEPT ![f.i][f.j] = 0]
           /\ sstack' = ReplaceTop(sstack, [f EXCEPT !.pc = "try", !.num = f.num + 1])
    /\ sret' = None
    /\ undone' = undone + 1
    /\ UNCHANGED <<board0, placed>>

\* Lines 78 and 91: range(1, 10) is exhausted; the invocation returns False.
SolveExhaustEarly ==
    /\ sstack # <<>>
    /\ LET f == Last(sstack)
       IN  /\ f.pc = "try"
           /\ f.num > 8
    /\ sstack' = Pop(sstack)
    /\ sret' = "False"
    /\ UNCHANGED <<board, board0, placed, undone>>

SolveExhaust ==
    /\ sstack # <<>>
    /\ LET f == Last(sstack)
       IN  /\ f.pc = "try"
           /\ f.num > 9
    /\ sstack' = Pop(sstack)
    /\ sret' = "False"
    /\ UNCHANGED <<board, board0, placed, undone>>

\* count_all_solutions(board, max_solutions=None), Q1.py 96-121. The optional
\* cap is a list: NoLimit is None, Limit(n) is the integer n.
NoLimit == <<>>
Limit(n) == <<n>>

\* Line 105: "max_solutions is not None and self.solution_count >= max_solutions"
cap_reached_late ==
    max_solutions # NoLimit /\ solution_count > max_solutions[1]

cap_reached ==
    max_solutions # NoLimit /\ solution_count >= max_solutions[1]

\* The client calls count_all_solutions(board, max_solutions): the outermost
\* frame is entered.
CountCall ==
    /\ sstack = <<>>
    /\ ~count_called
    /\ count_called' = TRUE
    /\ sstack' = << [pc |-> "enter", i |-> 0, j |-> 0, num |-> 0] >>
    /\ UNCHANGED <<board, board0, sret, placed, undone,
                   solution_count, all_solutions, max_solutions>>

\* Lines 105-106: the cap is reached; the invocation returns at once.
CountCapReached ==
    /\ sstack # <<>>
    /\ Last(sstack).pc = "enter"
    /\ cap_reached
    /\ sstack' = Pop(sstack)
    /\ UNCHANGED <<board, board0, sret, placed, undone, countVars>>

\* Lines 109-112: the first empty cell is found; the loop over range(1, 10)
\* starts.
CountScan ==
    /\ sstack # <<>>
    /\ Last(sstack).pc = "enter"
    /\ ~cap_reached
    /\ EmptyCells(board) # {}
    /\ LET c == FirstEmpty(board)
       IN  sstack' = ReplaceTop(sstack, [pc |-> "try", i |-> c[1], j |-> c[2], num |-> 1])
    /\ UNCHANGED <<board, board0, sret, placed, undone, countVars>>

\* Lines 120-121: no empty cell is left; the counter is incremented and a
\* deep copy of the grid is appended to all_solutions.
CountRecord ==
    /\ sstack # <<>>
    /\ Last(sstack).pc = "enter"
    /\ ~cap_reached
    /\ EmptyCells(board) = {}
    /\ solution_count' = solution_count + 1
    /\ all_solutions' = Append(all_solutions, board)
    /\ sstack' = Pop(sstack)
    /\ UNCHANGED <<board, board0, sret, placed, undone, max_solutions, count_called>>

\* Lines 112-113: the candidate num is pruned by is_valid; the loop goes on.
CountSkip ==
    /\ sstack # <<>>
    /\ LET f == Last(sstack)
       IN  /\ f.pc = "try"
           /\ f.num <= 9
           /\ ~is_valid(board, f.i, f.j, f.num)
           /\ sstack' = ReplaceTop(sstack, [f EXCEPT !.num = f.num + 1])
    /\ UNCHANGED <<board, board0, sret, placed, undone, countVars>>

\* Lines 113-115: a feasible num is written into the cell and
\* count_all_solutions is called recursively.
CountPlace ==
    /\ sstack # <<>>
    /\ LET f == Last(sstack)
       IN  /\ f.pc = "try"
           /\ f.num <= 9
           /\ is_valid(board, f.i, f.j, f.num)
           /\ board' = [board EXCEPT ![f.i][f.j] = f.num]
           /\ sstack' = Append(ReplaceTop(sstack, [f EXCEPT !.pc = "wait"]),
                               [pc |-> "enter", i |-> 0, j |-> 0, num |-> 0])
    /\ placed' = placed + 1
    /\ UNCHANGED <<board0, sret, undone, countVars>>

\* Line 116: the recursive call has returned; the cell is emptied again and
\* the loop goes on with the next num.
CountBacktrackUncapped ==
    /\ sstack # <<>>
    /\ LET f == Last(sstack)
       IN  /\ f.pc = "wait"
           /\ board' = IF cap_reached
                       THEN board
                       ELSE [board EXCEPT ![f.i][f.j] = 0]
           /\ sstack' = ReplaceTop(sstack, [f EXCEPT !.pc = "try", !.num = f.num + 1])
    /\ undone' = undone + 1
    /\ UNCHANGED <<board0, sret, placed, countVars>>

CountBacktrack ==
    /\ sstack # <<>>
    /\ LET f == Last(sstack)
       IN  /\ f.pc = "wait"
           /\ board' = [board EXCEPT ![f.i][f.j] = 0]
           /\ sstack' = ReplaceTop(sstack, [f EXCEPT !.pc = "try", !.num = f.num + 1])
    /\ undone' = undone + 1
    /\ UNCHANGED <<board0, sret, placed, countVars>>

\* Lines 112 and 117: range(1, 10) is exhausted; the invocation returns.
CountExhaust ==
    /\ sstack # <<>>
    /\ LET f == Last(sstack)
       IN  /\ f.pc = "try"
           /\ f.num > 9
    /\ sstack' = Pop(sstack)
    /\ UNCHANGED <<board, board0, sret, placed, undone, countVars>>

\* generate_puzzle(num_filled, ensure_solvable=True, max_tries=200),
\* Q1.py 123-167. max_attempts is the local constant of line 140.
max_attempts == 2000

\* "[[0] * 9 for _ in range(9)]"
EmptyBoard == [i \in Idx |-> [j \in Idx |-> 0]]

\* The outcomes <<row, col, num>> of the three random.randint calls that
\* the model draws from. Five of them form a locally valid grid that has no
\* completion (no cell of row 0 can take the value 1); with the sixth in place
\* of one of them the grid has a completion, and the sixth is refused by
\* is_valid once <<2, 3, 1>> is placed.
Draws ==
    { <<1, 0, 1>>, <<2, 3, 1>>, <<0, 6, 2>>, <<0, 7, 3>>, <<0, 8, 4>>, <<0, 5, 1>> }

MaxTries == 2

\* The client calls generate_puzzle(num_filled, ensure_solvable, max_tries).
GenCall ==
    /\ gen_pc = "start"
    /\ gen_pc' = "loop"
    /\ UNCHANGED <<gen_board, num_filled, ensure_solvable, max_tries, tries, filled,
                   attempts, gen_exit>>
    /\ UNCHANGED sudokuVars

\* Lines 136-140: a round of the outer loop starts from the empty board.
GenTry ==
    /\ gen_pc = "loop"
    /\ tries < max_tries
    /\ tries' = tries + 1
    /\ gen_board' = EmptyBoard
    /\ filled' = 0
    /\ attempts' = 0
    /\ gen_pc' = "fill"
    /\ UNCHANGED <<num_filled, ensure_solvable, max_tries, gen_exit>>
    /\ UNCHANGED sudokuVars

\* Lines 143-152: a draw whose cell is empty and whose value is_valid accepts
\* is committed.
GenDrawPlaceUnchecked ==
    /\ gen_pc = "fill"
    /\ filled < num_filled
    /\ attempts < max_attempts
    /\ \E d \in Draws :
           /\ gen_board[d[1]][d[2]] = 0
           /\ gen_board' = [gen_board EXCEPT ![d[1]][d[2]] = d[3]]
    /\ filled' = filled + 1
    /\ attempts' = attempts + 1
    /\ UNCHANGED <<num_filled, ensure_solvable, max_tries, tries, gen_pc, gen_exit>>
    /\ UNCHANGED sudokuVars

GenDrawPlace ==
    /\ gen_pc = "fill"
    /\ filled < num_filled
    /\ attempts < max_attempts
    /\ \E d \in Draws :
           /\ gen_board[d[1]][d[2]] = 0
           /\ is_valid(gen_board, d[1], d[2], d[3])
           /\ gen_board' = [gen_board EXCEPT ![d[1]][d[2]] = d[3]]
    /\ filled' = filled + 1
    /\ attempts' = attempts + 1
    /\ UNCHANGED <<num_filled, ensure_solvable, max_tries, tries, gen_pc, gen_exit>>
    /\ UNCHANGED sudokuVars

\* Lines 143-152: any other draw only uses up an attempt.
GenDrawReject ==
    /\ gen_pc = "fill"
    /\ filled < num_filled
    /\ attempts < max_attempts
    /\ \E d \in Draws :
           ~(gen_board[d[1]][d[2]] = 0 /\ is_valid(gen_board, d[1], d[2], d[3]))
    /\ attempts' = attempts + 1
    /\ UNCHANGED <<gen_board, num_filled, ensure_solvable, max_tries, tries, filled,
                   gen_pc, gen_exit>>
    /\ UNCHANGED sudokuVars

\* Lines 143 and 154-156: the attempts ran out before num_filled cells were
\* filled; the outer loop continues.
GenShort ==
    /\ gen_pc = "fill"
    /\ ~(filled < num_filled /\ attempts < max_attempts)
    /\ filled < num_filled
    /\ gen_pc' = "loop"
    /\ UNCHANGED <<gen_board, num_filled, ensure_solvable, max_tries, tries, filled,
                   attempts, gen_exit>>
    /\ UNCHANGED sudokuVars

\* Lines 158-159: the fill target is reached and no solvability check was
\* asked for.
GenReturnUnchecked ==
    /\ gen_pc = "fill"
    /\ ~(filled < num_filled /\ attempts < max_attempts)
    /\ ~(filled < num_filled)
    /\ ~ensure_solvable
    /\ gen_pc' = "returned"
    /\ gen_exit' = "unchecked"
    /\ UNCHANGED <<gen_board, num_filled, ensure_solvable, max_tries, tries, filled,
                   attempts>>
    /\ UNCHANGED sudokuVars

\* Lines 162-163: solve_sudoku is called on a deep copy of self.board. The
\* locals filled and attempts are not read again before line 138 resets
\* them; the history counters of solve_sudoku start afresh.
GenCheck ==
    /\ gen_pc = "fill"
    /\ ~(filled < num_filled /\ attempts < max_attempts)
    /\ ~(filled < num_filled)
    /\ ensure_solvable
    /\ board' = gen_board
    /\ board0' = gen_board
    /\ sstack' = << [pc |-> "scan", i |-> 0, j |-> 0, num |-> 0] >>
    /\ sret' = None
    /\ placed' = 0
    /\ undone' = 0
    /\ filled' = 0
    /\ attempts' = 0
    /\ gen_pc' = "check"
    /\ UNCHANGED <<gen_board, num_filled, ensure_solvable, max_tries, tries, gen_exit>>

\* Lines 163-164: solve_sudoku returned True; self.board is returned.
GenVerifiedUnconditionally ==
    /\ gen_pc = "check"
    /\ sstack = <<>>
    /\ sret \in {"True", "False"}
    /\ gen_pc' = "returned"
    /\ gen_exit' = "verified"
    /\ UNCHANGED <<gen_board, num_filled, ensure_solvable, max_tries, tries, filled,
                   attempts>>
    /\ UNCHANGED sudokuVars

GenVerified ==
    /\ gen_pc = "check"
    /\ sstack = <<>>
    /\ sret = "True"
    /\ gen_pc' = "returned"
    /\ gen_exit' = "verified"
    /\ UNCHANGED <<gen_board, num_filled, ensure_solvable, max_tries, tries, filled,
                   attempts>>
    /\ UNCHANGED sudokuVars

\* Line 163: solve_sudoku returned False; the outer loop continues. The copy
\* candidate and the value returned are not read again.
GenRetry ==
    /\ gen_pc = "check"
    /\ sstack = <<>>
    /\ sret = "False"
    /\ gen_pc' = "loop"
    /\ board' = <<>>
    /\ board0' = <<>>
    /\ sret' = None
    /\ placed' = 0
    /\ undone' = 0
    /\ UNCHANGED <<sstack, gen_board, num_filled, ensure_solvable, max_tries, tries,
                   filled, attempts, gen_exit>>

\* Lines 136 and 167: range(max_tries) is exhausted; the last constructed
\* board is returned.
GenFallback ==
    /\ gen_pc = "loop"
    /\ tries >= max_tries
    /\ gen_pc' = "returned"
    /\ gen_exit' = "fallback"
    /\ UNCHANGED <<gen_board, num_filled, ensure_solvable, max_tries, tries, filled,
                   attempts>>
    /\ UNCHANGED sudokuVars

(***************************************************************************)
(*                         Q2.py : TaskScheduler                           *)
(***************************************************************************)

\* Bounds of the generated task lists: at most MaxTasks tasks, start and end
\* times in 0..MaxTime (start < end), K in 0..MaxK.
MaxTasks == 4
MaxTime == 2
MaxK == 3

\* Task(task_id, start, end); the resource field is the variable resource.
\* self.resource = None is written 0: resource ids are drawn from
\* range(1, max_resources + 1), so that no id equals it.
NoResource == 0
Task(id, s, e) == [id |-> id, start |-> s, end |-> e]

\* Task.overlaps(other), Q2.py 17-24
overlaps_closed(a, b) == ~(a.end < b.start \/ b.end < a.start)

overlaps(a, b) == ~(a.end <= b.start \/ b.end <= a.start)

\* The task lists of main's four test cases, and a list on which the search
\* has to revise an earlier choice before it succeeds with K = 2.
tasks1 == << Task(1, 0, 3), Task(2, 2, 5), Task(3, 4, 7) >>
tasks2 == << Task(1, 0, 5), Task(2, 1, 6), Task(3, 2, 7) >>
tasks3 == << Task(1, 0, 3), Task(2, 1, 4), Task(3, 2, 5),
             Task(4, 5, 8), Task(5, 6, 9), Task(6, 7, 10) >>
tasks4 == << Task(1, 0, 2), Task(2, 2, 4), Task(3, 4, 6), Task(4, 6, 8) >>
tasksRevise == << Task(1, 0, 2), Task(2, 3, 5), Task(3, 1, 3), Task(4, 2, 4) >>

Fixtures == { tasks1, tasks2, tasks3, tasks4, tasksRevise }

Intervals == { <<s, e>> \in (0 .. MaxTime) \X (0 .. MaxTime) : s < e }

GeneratedTasks ==
    UNION { { [p \in 1 .. n |-> Task(p, iv[p][1], iv[p][2])] : iv \in [1 .. n -> Intervals] }
            : n \in 0 .. MaxTasks }

\* Python indexes the task list from 0: self.tasks[idx].
TaskAt(ts, idx) == ts[idx + 1]

\* build_conflict_graph, Q2.py 43-61: the double loop over i < j, appending
\* j to conflicts[i] and i to conflicts[j] for every overlapping pair.
RECURSIVE BuildLoopOneWay(_, _, _, _)
BuildLoopOneWay(ts, conflicts, i, j) ==
    IF i >= Len(ts) THEN conflicts
    ELSE IF j >= Len(ts) THEN BuildLoopOneWay(ts, conflicts, i + 1, i + 2)
    ELSE BuildLoopOneWay(ts,
                         IF overlaps(TaskAt(ts, i), TaskAt(ts, j))
                         THEN [conflicts EXCEPT ![i] = Append(@, j)]
                         ELSE conflicts,
                         i, j + 1)

RECURSIVE BuildLoop(_, _, _, _)
BuildLoop(ts, conflicts, i, j) ==
    IF i >= Len(ts) THEN conflicts
    ELSE IF j >= Len(ts) THEN BuildLoop(ts, conflicts, i + 1, i + 2)
    ELSE BuildLoop(ts,
                   IF overlaps(TaskAt(ts, i), TaskAt(ts, j))
                   THEN [conflicts EXCEPT ![i] = Append(@, j), ![j] = Append(@, i)]
                   ELSE conflicts,
                   i, j + 1)

build_conflict_graph(ts) ==
    BuildLoop(ts, [i \in 0 .. (Len(ts) - 1) |-> <<>>], 0, 1)

\* is_valid_assignment(task_idx, resource_id), Q2.py 63-78
is_valid_assignment_first_only(task_idx, resource_id) ==
    \A k \in 1 .. Len(conflict_graph[task_idx]) :
        k = 1 => resource[conflict_graph[task_idx][k] + 1] # resource_id

is_valid_assignment(task_idx, resource_id) ==
    \A k \in 1 .. Len(conflict_graph[task_idx]) :
        resource[conflict_graph[task_idx][k] + 1] # resource_id

\* solve(), Q2.py 134-138: the client's call enters solve_backtracking(0).
SchedCall ==
    /\ tstack = <<>>
    /\ tret = None
    /\ assigned = 0
    /\ unassigned = 0
    /\ tstack' = << [pc |-> "enter", task_idx |-> 0, resource_id |-> 0] >>
    /\ UNCHANGED <<tasks, max_resources, resource, conflict_graph, tret, assigned, unassigned>>

\* Lines 114-118: the base case returns True; otherwise the loop over
\* range(1, max_resources + 1) starts.
BtEnter ==
    /\ tstack # <<>>
    /\ LET f == Last(tstack)
       IN  /\ f.pc = "enter"
           /\ IF f.task_idx = Len(tasks)
              THEN /\ tstack' = Pop(tstack)
                   /\ tret' = "True"
              ELSE /\ tstack' = ReplaceTop(tstack, [f EXCEPT !.pc = "try", !.resource_id = 1])
                   /\ tret' = tret
    /\ UNCHANGED <<tasks, max_resources, resource, conflict_graph, assigned, unassigned>>

\* Lines 118-120: the resource is held by a conflicting task; next resource.
BtSkip ==
    /\ tstack # <<>>
    /\ LET f == Last(tstack)
       IN  /\ f.pc = "try"
           /\ f.resource_id <= max_resources
           /\ ~is_valid_assignment(f.task_idx, f.resource_id)
           /\ tstack' = ReplaceTop(tstack, [f EXCEPT !.resource_id = f.resource_id + 1])
    /\ UNCHANGED <<tasks, max_resources, resource, conflict_graph, tret, assigned, unassigned>>

\* Lines 120-125: assign the resource and recurse on the next task.
BtAssign ==
    /\ tstack # <<>>
    /\ LET f == Last(tstack)
       IN  /\ f.pc = "try"
           /\ f.resource_id <= max_resources
           /\ is_valid_assignment(f.task_idx, f.resource_id)
           /\ resource' = [resource EXCEPT ![f.task_idx + 1] = f.resource_id]
           /\ tstack' = Append(ReplaceTop(tstack, [f EXCEPT !.pc = "wait"]),
                               [pc |-> "enter", task_idx |-> f.task_idx + 1,
                                resource_id |-> 0])
    /\ tret' = None
    /\ assigned' = assigned + 1
    /\ UNCHANGED <<tasks, max_resources, conflict_graph, unassigned>>

\* Lines 125-126: the recursive call returned True; so does this one.
BtSuccess ==
    /\ tstack # <<>>
    /\ Last(tstack).pc = "wait"
    /\ tret = "True"
    /\ tstack' = Pop(tstack)
    /\ UNCHANGED <<tasks, max_resources, resource, conflict_graph, tret, assigned, unassigned>>

\* Lines 125-129: the recursive call returned False; the assignment is
\* undone and the loop goes on with the next resource.
BtBacktrackKeep ==
    /\ tstack # <<>>
    /\ LET f == Last(tstack)
       IN  /\ f.pc = "wait"
           /\ tret = "False"
           /\ tstack' = ReplaceTop(tstack,
                            [f EXCEPT !.pc = "try", !.resource_id = f.resource_id + 1])
    /\ tret' = None
    /\ unassigned' = unassigned + 1
    /\ UNCHANGED <<tasks, max_resources, resource, conflict_graph, assigned>>

BtBacktrackGiveUp ==
    /\ tstack # <<>>
    /\ LET f == Last(tstack)
       IN  /\ f.pc = "wait"
           /\ tret = "False"
           /\ resource' = [resource EXCEPT ![f.task_idx + 1] = NoResource]
           /\ tstack' = Pop(tstack)
    /\ tret' = "False"
    /\ unassigned' = unassigned + 1
    /\ UNCHANGED <<tasks, max_resources, conflict_graph, assigned>>

BtBacktrack ==
    /\ tstack # <<>>
    /\ LET f == Last(tstack)
       IN  /\ f.pc = "wait"
           /\ tret = "False"
           /\ resource' = [resource EXCEPT ![f.task_idx + 1] = NoResource]
           /\ tstack' = ReplaceTop(tstack,
                            [f EXCEPT !.pc = "try", !.resource_id = f.resource_id + 1])
    /\ tret' = None
    /\ unassigned' = unassigned + 1
    /\ UNCHANGED <<tasks, max_resources, conflict_graph, assigned>>

\* Lines 118 and 132: every resource was tried; return False.
BtExhaust ==
    /\ tstack # <<>>
    /\ LET f == Last(tstack)
       IN  /\ f.pc = "try"
           /\ f.resource_id > max_resources
    /\ tstack' = Pop(tstack)
    /\ tret' = "False"
    /\ UNCHANGED <<tasks, max_resources, resource, conflict_graph, assigned, unassigned>>

(***************************************************************************)
(*                         Q3.py : ShoppingSolver                          *)
(***************************************************************************)

\* Bounds of the generated instances: at most MaxItems items, prices in
\* 1..MaxPrice, max_quantity in 0..MaxQuantity (0 = unlimited), budget in
\* 0..MaxBudget and min_items in 0..MaxMinItems. Amounts are whole numbers.
MaxItems == 2
MaxPrice == 2
MaxQuantity == 1
MaxBudget == 3
MaxMinItems == 2

\* Item(name, price, max_quantity); names identify the items of a list.
Item(name, price, max_quantity) ==
    [name |-> name, price |-> price, max_quantity |-> max_quantity]

ItemNames == << "item1", "item2", "item3", "item4", "item5" >>

GeneratedItems ==
    UNION { { [p \in 1 .. n |-> Item(ItemNames[p], pm[p][1], pm[p][2])] :
                pm \in [1 .. n -> (1 .. MaxPrice) \X (0 .. MaxQuantity)] }
            : n \in 0 .. MaxItems }

\* main's TEST CASE 3 (every price above the budget) and TEST CASE 4 (three
\* unlimited items; amounts in units of half a dollar: 1.00, 2.00, 1.50
\* and the budget 10.00).
items3 == << Item("ExpensiveItem1", 20, 1), Item("ExpensiveItem2", 25, 1),
             Item("ExpensiveItem3", 30, 1) >>
items4 == << Item("Balloon", 2, 0), Item("Plate", 4, 0), Item("Cup", 3, 0) >>

ShopInstances ==
    { [items |-> its, budget |-> b, min_items |-> m] :
        its \in GeneratedItems, b \in 0 .. MaxBudget, m \in 0 .. MaxMinItems }
    \cup { [items |-> items3, budget |-> 15, min_items |-> 2],
           [items |-> items4, budget |-> 20, min_items |-> 3] }

\* int(x / y) of Python for integers x and y > 0: the quotient truncated
\* towards zero.
IntDiv(x, y) == IF x >= 0 THEN x \div y ELSE -((-x) \div y)

\* "max_qty = item.max_quantity if item.max_quantity > 0 else
\*  int(self.budget / item.price) + 1", Q3.py 84 and 122
effective_max_quantity_short(item) ==
    IF item.max_quantity > 0 THEN item.max_quantity - 1
    ELSE IntDiv(budget, item.price)

effective_max_quantity(item) ==
    IF item.max_quantity > 0 THEN item.max_quantity
    ELSE IntDiv(budget, item.price) + 1

\* Python indexes the item list from 0: self.items[idx].
ItemAt(idx) == items[idx + 1]

NewFrame(idx, cost, count) ==
    [pc |-> "enter", idx |-> idx, current_cost |-> cost, current_count |-> count,
     qty |-> 0]

\* find_all_solutions, Q3.py 144-145: self.solutions = [] and the call
\* solve_all_combinations(0, [], 0, 0).
FindAllCall ==
    /\ phase = "start"
    /\ phase' = "all"
    /\ solutions' = <<>>
    /\ current_combo' = <<>>
    /\ cstack' = << NewFrame(0, 0, 0) >>
    /\ UNCHANGED <<items, budget, min_items, cret, all_result, one_result>>

\* Lines 77-87: the base case records the combination when it meets the
\* requirements, and returns; otherwise the loop over range(max_qty + 1)
\* starts.
AllEnterNoMinCheck ==
    /\ phase = "all"
    /\ cstack # <<>>
    /\ LET f == Last(cstack)
       IN  /\ f.pc = "enter"
           /\ IF f.idx = Len(items)
              THEN /\ solutions' = IF f.current_cost <= budget
                                   THEN Append(solutions, <<current_combo, f.current_cost>>)
                                   ELSE solutions
                   /\ cstack' = Pop(cstack)
              ELSE /\ solutions' = solutions
                   /\ cstack' = ReplaceTop(cstack, [f EXCEPT !.pc = "loop", !.qty = 0])
    /\ UNCHANGED <<items, budget, min_items, current_combo, cret, phase,
                   all_result, one_result>>

AllEnter ==
    /\ phase = "all"
    /\ cstack # <<>>
    /\ LET f == Last(cstack)
       IN  /\ f.pc = "enter"
           /\ IF f.idx = Len(items)
              THEN /\ solutions' = IF f.current_count >= min_items /\ f.current_cost <= budget
                                   THEN Append(solutions, <<current_combo, f.current_cost>>)
                                   ELSE solutions
                   /\ cstack' = Pop(cstack)
              ELSE /\ solutions' = solutions
                   /\ cstack' = ReplaceTop(cstack, [f EXCEPT !.pc = "loop", !.qty = 0])
    /\ UNCHANGED <<items, budget, min_items, current_combo, cret, phase,
                   all_result, one_result>>

\* Line 87: range(max_qty + 1) is exhausted; the invocation returns.
AllExhaust ==
    /\ phase = "all"
    /\ cstack # <<>>
    /\ LET f == Last(cstack)
       IN  /\ f.pc = "loop"
           /\ f.qty > effective_max_quantity(ItemAt(f.idx))
    /\ cstack' = Pop(cstack)
    /\ UNCHANGED <<items, budget, min_items, solutions, current_combo, cret, phase,
                   all_result, one_result>>

\* Lines 88-92: the new cost exceeds the budget; break, and return.
AllBreak ==
    /\ phase = "all"
    /\ cstack # <<>>
    /\ LET f == Last(cstack)
           item == ItemAt(f.idx)
       IN  /\ f.pc = "loop"
           /\ f.qty <= effective_max_quantity(item)
           /\ f.current_cost + (f.qty * item.price) > budget
    /\ cstack' = Pop(cstack)
    /\ UNCHANGED <<items, budget, min_items, solutions, current_combo, cret, phase,
                   all_result, one_result>>

\* Lines 88-99: the quantity fits; an entry (name, qty, subtotal) is pushed
\* when qty > 0 and the next item is searched.
AllDescend ==
    /\ phase = "all"
    /\ cstack # <<>>
    /\ LET f == Last(cstack)
           item == ItemAt(f.idx)
           new_cost == f.current_cost + (f.qty * item.price)
       IN  /\ f.pc = "loop"
           /\ f.qty <= effective_max_quantity(item)
           /\ new_cost <= budget
           /\ current_combo' = IF f.qty > 0
                               THEN Append(current_combo,
                                           <<item.name, f.qty, f.qty * item.price>>)
                               ELSE current_combo
           /\ cstack' = Append(ReplaceTop(cstack, [f EXCEPT !.pc = "wait"]),
                               NewFrame(f.idx + 1, new_cost, f.current_count + f.qty))
    /\ UNCHANGED <<items, budget, min_items, solutions, cret, phase,
                   all_result, one_result>>

\* Lines 101-103: the recursive call returned; the entry is popped and the
\* loop goes on with the next quantity.
AllBacktrackNoPop ==
    /\ phase = "all"
    /\ cstack # <<>>
    /\ LET f == Last(cstack)
       IN  /\ f.pc = "wait"
           /\ cstack' = ReplaceTop(cstack, [f EXCEPT !.pc = "loop", !.qty = f.qty + 1])
    /\ UNCHANGED <<items, budget, min_items, solutions, current_combo, cret, phase,
                   all_result, one_result>>

AllBacktrack ==
    /\ phase = "all"
    /\ cstack # <<>>
    /\ LET f == Last(cstack)
       IN  /\ f.pc = "wait"
           /\ current_combo' = IF f.qty > 0 THEN Pop(current_combo) ELSE current_combo
           /\ cstack' = ReplaceTop(cstack, [f EXCEPT !.pc = "loop", !.qty = f.qty + 1])
    /\ UNCHANGED <<items, budget, min_items, solutions, cret, phase,
                   all_result, one_result>>

\* Line 146: find_all_solutions returns self.solutions.
FindAllReturn ==
    /\ phase = "all"
    /\ cstack = <<>>
    /\ all_result' = solutions
    /\ phase' = "between"
    /\ UNCHANGED <<items, budget, min_items, solutions, current_combo, cstack, cret,
                   one_result>>

\* find_one_solution, Q3.py 150-151: self.solutions = [] and the call
\* solve_first_combination(0, [], 0, 0).
FindOneCall ==
    /\ phase = "between"
    /\ phase' = "one"
    /\ solutions' = <<>>
    /\ current_combo' = <<>>
    /\ cstack' = << NewFrame(0, 0, 0) >>
    /\ cret' = None
    /\ UNCHANGED <<items, budget, min_items, all_result, one_result>>

\* Lines 115-124: the base case records the combination and returns True
\* when it meets the requirements, False otherwise; else the loop starts.
FirstEnterNoMinCheck ==
    /\ phase = "one"
    /\ cstack # <<>>
    /\ LET f == Last(cstack)
       IN  /\ f.pc = "enter"
           /\ IF f.idx = Len(items)
              THEN IF f.current_cost <= budget
                   THEN /\ solutions' = Append(solutions, <<current_combo, f.current_cost>>)
                        /\ cstack' = Pop(cstack)
                        /\ cret' = "True"
                   ELSE /\ solutions' = solutions
                        /\ cstack' = Pop(cstack)
                        /\ cret' = "False"
              ELSE /\ solutions' = solutions
                   /\ cstack' = ReplaceTop(cstack, [f EXCEPT !.pc = "loop", !.qty = 0])
                   /\ cret' = cret
    /\ UNCHANGED <<items, budget, min_items, current_combo, phase, all_result, one_result>>

FirstEnter ==
    /\ phase = "one"
    /\ cstack # <<>>
    /\ LET f == Last(cstack)
       IN  /\ f.pc = "enter"
           /\ IF f.idx = Len(items)
              THEN IF f.current_count >= min_items /\ f.current_cost <= budget
                   THEN /\ solutions' = Append(solutions, <<current_combo, f.current_cost>>)
                        /\ cstack' = Pop(cstack)
                        /\ cret' = "True"
                   ELSE /\ solutions' = solutions
                        /\ cstack' = Pop(cstack)
                        /\ cret' = "False"
              ELSE /\ solutions' = solutions
                   /\ cstack' = ReplaceTop(cstack, [f EXCEPT !.pc = "loop", !.qty = 0])
                   /\ cret' = cret
    /\ UNCHANGED <<items, budget, min_items, current_combo, phase, all_result, one_result>>

\* Lines 124 and 140: range(max_qty + 1) is exhausted; return False.
FirstExhaust ==
    /\ phase = "one"
    /\ cstack # <<>>
    /\ LET f == Last(cstack)
       IN  /\ f.pc = "loop"
           /\ f.qty > effective_max_quantity(ItemAt(f.idx))
    /\ cstack' = Pop(cstack)
    /\ cret' = "False"
    /\ UNCHANGED <<items, budget, min_items, solutions, current_combo, phase,
                   all_result, one_result>>

\* Lines 125-128 and 140: the new cost exceeds the budget; break, return False.
FirstBreak ==
    /\ phase = "one"
    /\ cstack # <<>>
    /\ LET f == Last(cstack)
           item == ItemAt(f.idx)
       IN  /\ f.pc = "loop"
           /\ f.qty <= effective_max_quantity(item)
           /\ f.current_cost + (f.qty * item.price) > budget
    /\ cstack' = Pop(cstack)
    /\ cret' = "False"
    /\ UNCHANGED <<items, budget, min_items, solutions, current_combo, phase,
                   all_result, one_result>>

\* Lines 125-134: the quantity fits; push the entry when qty > 0 and search
\* the next item.
FirstDescend ==
    /\ phase = "one"
    /\ cstack # <<>>
    /\ LET f == Last(cstack)
           item == ItemAt(f.idx)
           new_cost == f.current_cost + (f.qty * item.price)
       IN  /\ f.pc = "loop"
           /\ f.qty <= effective_max_quantity(item)
           /\ new_cost <= budget
           /\ current_combo' = IF f.qty > 0
                               THEN Append(current_combo,
                                           <<item.name, f.qty, f.qty * item.price>>)
                               ELSE current_combo
           /\ cstack' = Append(ReplaceTop(cstack, [f EXCEPT !.pc = "wait"]),
                               NewFrame(f.idx + 1, new_cost, f.current_count + f.qty))
    /\ cret' = None
    /\ UNCHANGED <<items, budget, min_items, solutions, phase, all_result, one_result>>

\* Lines 134-135: the recursive call returned True; return True at once (the
\* entry pushed for this quantity stays on current_combo).
FirstSuccess ==
    /\ phase = "one"
    /\ cstack # <<>>
    /\ Last(cstack).pc = "wait"
    /\ cret = "True"
    /\ cstack' = Pop(cstack)
    /\ UNCHANGED <<items, budget, min_items, solutions, current_combo, cret, phase,
                   all_result, one_result>>

\* Lines 134-138: the recursive call returned False; pop the entry and go on
\* with the next quantity.
FirstBacktrackNoPop ==
    /\ phase = "one"
    /\ cstack # <<>>
    /\ LET f == Last(cstack)
       IN  /\ f.pc = "wait"
           /\ cret = "False"
           /\ cstack' = ReplaceTop(cstack, [f EXCEPT !.pc = "loop", !.qty = f.qty + 1])
    /\ cret' = None
    /\ UNCHANGED <<items, budget, min_items, solutions, current_combo, phase,
                   all_result, one_result>>

FirstBacktrack ==
    /\ phase = "one"
    /\ cstack # <<>>
    /\ LET f == Last(cstack)
       IN  /\ f.pc = "wait"
           /\ cret = "False"
           /\ current_combo' = IF f.qty > 0 THEN Pop(current_combo) ELSE current_combo
           /\ cstack' = ReplaceTop(cstack, [f EXCEPT !.pc = "loop", !.qty = f.qty + 1])
    /\ cret' = None
    /\ UNCHANGED <<items, budget, min_items, solutions, phase, all_result, one_result>>

\* Line 152: return self.solutions[0] if self.solutions else None.
FindOneReturn ==
    /\ phase = "one"
    /\ cstack = <<>>
    /\ one_result' = IF solutions # <<>> THEN solutions[1] ELSE None
    /\ phase' = "done"
    /\ UNCHANGED <<items, budget, min_items, solutions, current_combo, cstack, cret,
                   all_result>>

SudokuIdle ==
    /\ board = <<>>
    /\ board0 = <<>>
    /\ sstack = <<>>
    /\ sret = None
    /\ placed = 0
    /\ undone = 0

CountIdle ==
    /\ solution_count = 0
    /\ all_solutions = <<>>
    /\ max_solutions = NoLimit
    /\ count_called = FALSE

GenIdle ==
    /\ gen_board = <<>>
    /\ num_filled = 0
    /\ ensure_solvable = TRUE
    /\ max_tries = 0
    /\ tries = 0
    /\ filled = 0
    /\ attempts = 0
    /\ gen_pc = "idle"
    /\ gen_exit = None

SchedIdle ==
    /\ tasks = <<>>
    /\ max_resources = 0
    /\ resource = <<>>
    /\ conflict_graph = <<>>
    /\ tstack = <<>>
    /\ tret = None
    /\ assigned = 0
    /\ unassigned = 0

ShopIdle ==
    /\ items = <<>>
    /\ budget = 0
    /\ min_items = 0
    /\ solutions = <<>>
    /\ current_combo = <<>>
    /\ cstack = <<>>
    /\ cret = None
    /\ phase = "idle"
    /\ all_result = None
    /\ one_result = None

InitSudoku ==
    /\ client = "solve_sudoku"
    /\ board \in InputBoards
    /\ board0 = board
    /\ sstack = <<>>
    /\ sret = None
    /\ placed = 0
    /\ undone = 0
    /\ CountIdle
    /\ GenIdle
    /\ SchedIdle
    /\ ShopIdle

NextSudoku ==
    \/ (SudokuCall /\ UNCHANGED <<countVars, genVars, schedVars, shopVars, client>>)
    \/ (SolveScan /\ UNCHANGED <<countVars, genVars, schedVars, shopVars, client>>)
    \/ (SolveSkip /\ UNCHANGED <<countVars, genVars, schedVars, shopVars, client>>)
    \/ (SolvePlace /\ UNCHANGED <<countVars, genVars, schedVars, shopVars, client>>)
    \/ (SolveSuccess /\ UNCHANGED <<countVars, genVars, schedVars, shopVars, client>>)
    \/ (SolveBacktrack /\ UNCHANGED <<countVars, genVars, schedVars, shopVars, client>>)
    \/ (SolveExhaust /\ UNCHANGED <<countVars, genVars, schedVars, shopVars, client>>)

SpecSudoku == InitSudoku /\ [][NextSudoku]_vars

\* Input family of count_all_solutions. HoleBase is the completion of
\* known_puzzle with the cells of HoleRowSet x HoleColSet emptied (it has
\* four completions); the first NumVaried cells of VariedCells are then
\* overwritten by arbitrary values of 0..9. The family holds grids with
\* several completions, with one, locally valid grids with none, and grids
\* with a repeated value. main's known_puzzle is counted as well. The cap is
\* None or an integer of 0..MaxCap.
HoleRowSet == {3, 4, 5}
HoleColSet == {0, 3, 6}
NumVaried == 1
MaxCap == 3
VariedCells == << <<5, 3>>, <<3, 1>>, <<4, 6>>, <<3, 0>> >>

HoleBase ==
    [i \in Idx |-> [j \in Idx |->
        IF i \in HoleRowSet /\ j \in HoleColSet THEN 0 ELSE Grid(Completion)[i][j]]]

RECURSIVE OverwriteAt(_, _, _, _)
OverwriteAt(b, cells, k, vals) ==
    IF k = 0 THEN b
    ELSE LET c == cells[k]
         IN  OverwriteAt([b EXCEPT ![c[1]][c[2]] = vals[k]], cells, k - 1, vals)

SmallBoards ==
    { OverwriteAt(HoleBase, VariedCells, NumVaried, vals) :
          vals \in [1 .. NumVaried -> 0 .. 9] }

Caps == {NoLimit} \cup { Limit(n) : n \in 0 .. MaxCap }

\* The state after SudokuSolver() (Q1.py 13-16) and "solver.solution_count = 0"
\* (Q1.py 251), before count_all_solutions(board, max_solutions) is called.
InitCount ==
    /\ client = "count_all_solutions"
    /\ board \in SmallBoards \cup {Grid(known_puzzle)}
    /\ board0 = board
    /\ sstack = <<>>
    /\ sret = None
    /\ placed = 0
    /\ undone = 0
    /\ solution_count = 0
    /\ all_solutions = <<>>
    /\ max_solutions \in Caps
    /\ count_called = FALSE
    /\ GenIdle
    /\ SchedIdle
    /\ ShopIdle

NextCount ==
    \/ (CountCall /\ UNCHANGED <<genVars, schedVars, shopVars, client>>)
    \/ (CountCapReached /\ UNCHANGED <<genVars, schedVars, shopVars, client>>)
    \/ (CountScan /\ UNCHANGED <<genVars, schedVars, shopVars, client>>)
    \/ (CountRecord /\ UNCHANGED <<genVars, schedVars, shopVars, client>>)
    \/ (CountSkip /\ UNCHANGED <<genVars, schedVars, shopVars, client>>)
    \/ (CountPlace /\ UNCHANGED <<genVars, schedVars, shopVars, client>>)
    \/ (CountBacktrack /\ UNCHANGED <<genVars, schedVars, shopVars, client>>)
    \/ (CountExhaust /\ UNCHANGED <<genVars, schedVars, shopVars, client>>)

SpecCount == InitCount /\ [][NextCount]_vars

\* The calls generate_puzzle(num_filled, ensure_solvable, max_tries) of the
\* model: num_filled is the size of the largest grid Draws can build, with
\* and without the solvability check, or 17.
GenCalls ==
    { [num_filled |-> Cardinality(Draws) - 1, ensure_solvable |-> TRUE,
       max_tries |-> MaxTries],
      [num_filled |-> Cardinality(Draws) - 1, ensure_solvable |-> FALSE, max_tries |-> 1],
      [num_filled |-> 17, ensure_solvable |-> TRUE, max_tries |-> 1] }

\* The state after SudokuSolver() (Q1.py 13-16), before generate_puzzle is
\* called.
InitGen ==
    /\ client = "generate_puzzle"
    /\ SudokuIdle
    /\ CountIdle
    /\ gen_board = EmptyBoard
    /\ \E call \in GenCalls :
           /\ num_filled = call.num_filled
           /\ ensure_solvable = call.ensure_solvable
           /\ max_tries = call.max_tries
    /\ tries = 0
    /\ filled = 0
    /\ attempts = 0
    /\ gen_pc = "start"
    /\ gen_exit = None
    /\ SchedIdle
    /\ ShopIdle

NextGen ==
    \/ (GenCall /\ UNCHANGED <<countVars, schedVars, shopVars, client>>)
    \/ (GenTry /\ UNCHANGED <<countVars, schedVars, shopVars, client>>)
    \/ (GenDrawPlace /\ UNCHANGED <<countVars, schedVars, shopVars, client>>)
    \/ (GenDrawReject /\ UNCHANGED <<countVars, schedVars, shopVars, client>>)
    \/ (GenShort /\ UNCHANGED <<countVars, schedVars, shopVars, client>>)
    \/ (GenReturnUnchecked /\ UNCHANGED <<countVars, schedVars, shopVars, client>>)
    \/ (GenCheck /\ UNCHANGED <<countVars, schedVars, shopVars, client>>)
    \/ (SolveScan /\ UNCHANGED <<countVars, genVars, schedVars, shopVars, client>>)
    \/ (SolveSkip /\ UNCHANGED <<countVars, genVars, schedVars, shopVars, client>>)
    \/ (SolvePlace /\ UNCHANGED <<countVars, genVars, schedVars, shopVars, client>>)
    \/ (SolveSuccess /\ UNCHANGED <<countVars, genVars, schedVars, shopVars, client>>)
    \/ (SolveBacktrack /\ UNCHANGED <<countVars, genVars, schedVars, shopVars, client>>)
    \/ (SolveExhaust /\ UNCHANGED <<countVars, genVars, schedVars, shopVars, client>>)
    \/ (GenVerified /\ UNCHANGED <<countVars, schedVars, shopVars, client>>)
    \/ (GenRetry /\ UNCHANGED <<countVars, schedVars, shopVars, client>>)
    \/ (GenFallback /\ UNCHANGED <<countVars, schedVars, shopVars, client>>)

SpecGen == InitGen /\ [][NextGen]_vars

\* solve_sudoku on the grids of both input families.
InitSolve ==
    /\ client = "solve_sudoku"
    /\ board \in InputBoards \cup SmallBoards
    /\ board0 = board
    /\ sstack = <<>>
    /\ sret = None
    /\ placed = 0
    /\ undone = 0
    /\ CountIdle
    /\ GenIdle
    /\ SchedIdle
    /\ ShopIdle

SpecSolve == InitSolve /\ [][NextSudoku]_vars

\* The state after TaskScheduler(tasks, K): every Task was built with
\* resource = None (Q2.py 15) and the conflict graph is built (Q2.py 41).
InitSched ==
    /\ client = "solve"
    /\ tasks \in GeneratedTasks \cup Fixtures
    /\ max_resources \in 0 .. MaxK
    /\ resource = [p \in 1 .. Len(tasks) |-> NoResource]
    /\ conflict_graph = build_conflict_graph(tasks)
    /\ tstack = <<>>
    /\ tret = None
    /\ assigned = 0
    /\ unassigned = 0
    /\ SudokuIdle
    /\ CountIdle
    /\ GenIdle
    /\ ShopIdle

NextSched ==
    \/ (SchedCall /\ UNCHANGED <<sudokuVars, countVars, genVars, shopVars, client>>)
    \/ (BtEnter /\ UNCHANGED <<sudokuVars, countVars, genVars, shopVars, client>>)
    \/ (BtSkip /\ UNCHANGED <<sudokuVars, countVars, genVars, shopVars, client>>)
    \/ (BtAssign /\ UNCHANGED <<sudokuVars, countVars, genVars, shopVars, client>>)
    \/ (BtSuccess /\ UNCHANGED <<sudokuVars, countVars, genVars, shopVars, client>>)
    \/ (BtBacktrack /\ UNCHANGED <<sudokuVars, countVars, genVars, shopVars, client>>)
    \/ (BtExhaust /\ UNCHANGED <<sudokuVars, countVars, genVars, shopVars, client>>)

SpecSched == InitSched /\ [][NextSched]_vars

\* The state after ShoppingSolver(items, budget, min_items), Q3.py 28-31;
\* the client then calls find_all_solutions() and find_one_solution().
InitShop ==
    /\ client = "find_solutions"
    /\ \E inst \in ShopInstances :
           /\ items = inst.items
           /\ budget = inst.budget
           /\ min_items = inst.min_items
    /\ solutions = <<>>
    /\ current_combo = <<>>
    /\ cstack = <<>>
    /\ cret = None
    /\ phase = "start"
    /\ all_result = None
    /\ one_result = None
    /\ SudokuIdle
    /\ CountIdle
    /\ GenIdle
    /\ SchedIdle

NextShop ==
    \/ (FindAllCall /\ UNCHANGED <<sudokuVars, countVars, genVars, schedVars, client>>)
    \/ (AllEnter /\ UNCHANGED <<sudokuVars, countVars, genVars, schedVars, client>>)
    \/ (AllExhaust /\ UNCHANGED <<sudokuVars, countVars, genVars, schedVars, client>>)
    \/ (AllBreak /\ UNCHANGED <<sudokuVars, countVars, genVars, schedVars, client>>)
    \/ (AllDescend /\ UNCHANGED <<sudokuVars, countVars, genVars, schedVars, client>>)
    \/ (AllBacktrack /\ UNCHANGED <<sudokuVars, countVars, genVars, schedVars, client>>)
    \/ (FindAllReturn /\ UNCHANGED <<sudokuVars, countVars, genVars, schedVars, client>>)
    \/ (FindOneCall /\ UNCHANGED <<sudokuVars, countVars, genVars, schedVars, client>>)
    \/ (FirstEnter /\ UNCHANGED <<sudokuVars, countVars, genVars, schedVars, client>>)
    \/ (FirstExhaust /\ UNCHANGED <<sudokuVars, countVars, genVars, schedVars, client>>)
    \/ (FirstBreak /\ UNCHANGED <<sudokuVars, countVars, genVars, schedVars, client>>)
    \/ (FirstDescend /\ UNCHANGED <<sudokuVars, countVars, genVars, schedVars, client>>)
    \/ (FirstSuccess /\ UNCHANGED <<sudokuVars, countVars, genVars, schedVars, client>>)
    \/ (FirstBacktrack /\ UNCHANGED <<sudokuVars, countVars, genVars, schedVars, client>>)
    \/ (FindOneReturn /\ UNCHANGED <<sudokuVars, countVars, genVars, schedVars, client>>)

SpecShop == InitShop /\ [][NextShop]_vars

\* The three clients that work on a grid, taken together: a behaviour is a
\* run of one of them.
InitGrids == InitSudoku \/ InitCount \/ InitGen

NextGrids ==
    \/ (client = "solve_sudoku" /\ NextSudoku)
    \/ (client = "count_all_solutions" /\ NextCount)
    \/ (client = "generate_puzzle" /\ NextGen)

SpecGrids == InitGrids /\ [][NextGrids]_vars

\* The four clients that run a recursive search, taken together: a behaviour
\* is a run of one of them.
InitSearches == InitSudoku \/ InitCount \/ InitSched \/ InitShop

NextSearches ==
    \/ (client = "solve_sudoku" /\ NextSudoku)
    \/ (client = "count_all_solutions" /\ NextCount)
    \/ (client = "solve" /\ NextSched)
    \/ (client = "find_solutions" /\ NextShop)

SpecSearches == InitSearches /\ [][NextSearches]_vars

\* solve_sudoku has returned to the client.
SudokuDone == sstack = <<>> /\ sret # None

\* Every row, every column and every 3x3 block is a permutation of 1..9
\* (nine cells holding exactly the values 1..9); no cell is empty.
Solved(b) ==
    /\ \A i \in Idx : { b[i][j] : j \in Idx } = 1 .. 9
    /\ \A j \in Idx : { b[i][j] : i \in Idx } = 1 .. 9
    /\ \A bi \in 0 .. (Box - 1) : \A bj \in 0 .. (Box - 1) :
           { b[Box * bi + i][Box * bj + j] : i \in 0 .. (Box - 1), j \in 0 .. (Box - 1) }
               = 1 .. 9

SameUnit(c, d) ==
    \/ c[1] = d[1]
    \/ c[2] = d[2]
    \/ (c[1] \div Box = d[1] \div Box /\ c[2] \div Box = d[2] \div Box)

\* No non-zero value is repeated in a row, a column or a block.
LocallyValid(b) ==
    \A c \in Idx \X Idx : \A d \in Idx \X Idx :
        (c # d /\ SameUnit(c, d) /\ b[c[1]][c[2]] # 0) => b[c[1]][c[2]] # b[d[1]][d[2]]

\* C1: if solve_sudoku returns False, the grid equals, cell for cell, the
\* grid as it was when the call was made.
C1_GridRestoredOnFailure ==
    (SudokuDone /\ sret = "False") => board = board0

\* C1 witness: a failed search that did place, and take back, values.
C1_Witness ==
    /\ SudokuDone
    /\ sret = "False"
    /\ board = board0
    /\ LocallyValid(board0)
    /\ undone > 1

\* C2 as stated: whenever solve_sudoku returns True the grid is a solved
\* grid (no empty cell, every row, column and block a permutation of 1..9).
C2_Original ==
    (SudokuDone /\ sret = "True") => Solved(board)

\* C2 amended: when solve_sudoku returns True on a grid in which no
\* non-zero value was repeated in a row, column or block, the grid is a
\* solved grid.
C2_SolvedOnSuccess ==
    (SudokuDone /\ sret = "True" /\ LocallyValid(board0)) => Solved(board)

\* C2 witness: a successful search on a locally valid grid with empty cells.
C2_Witness ==
    /\ SudokuDone
    /\ sret = "True"
    /\ LocallyValid(board0)
    /\ placed > undone
    /\ undone > 0
    /\ Solved(board)

\* solve() has returned to the client.
SchedDone == tstack = <<>> /\ tret # None

Positions == 1 .. Len(tasks)

\* colour is a proper K-colouring of the conflict relation of the task list.
ProperColouring(colour, K) ==
    /\ \A p \in Positions : colour[p] \in 1 .. K
    /\ \A p \in Positions : \A q \in Positions :
           (p # q /\ overlaps(tasks[p], tasks[q])) => colour[p] # colour[q]

Colourable(K) == \E colour \in [Positions -> 1 .. K] : ProperColouring(colour, K)

\* C3: whenever solve() returns True, every task holds a resource id in 1..K
\* and two tasks whose intervals overlap hold different resources.
C3_ProperColouringOnSuccess ==
    (SchedDone /\ tret = "True") => ProperColouring(resource, max_resources)

\* C3 witness: a successful run on a list with an overlapping pair, in which
\* a resource was skipped because a conflicting task held it.
C3_Witness ==
    /\ SchedDone
    /\ tret = "True"
    /\ \E p \in Positions : \E q \in Positions : p # q /\ overlaps(tasks[p], tasks[q])
    /\ \E p \in Positions : resource[p] > 1
    /\ ProperColouring(resource, max_resources)

\* C4: with all resource fields None at the call, solve() returns False
\* exactly when the conflict graph has no proper K-colouring; the three
\* mutually overlapping tasks [0,5), [1,6), [2,7) give False with K = 2 and
\* True with K = 3.
C4_FalseIffNotColourable ==
    SchedDone =>
        /\ (tret = "False") <=> ~Colourable(max_resources)
        /\ (tasks = tasks2 /\ max_resources = 2) => tret = "False"
        /\ (tasks = tasks2 /\ max_resources = 3) => tret = "True"

\* C4 witness: the K+1 clique of the example, K = 2, found infeasible.
C4_Witness ==
    /\ SchedDone
    /\ tasks = tasks2
    /\ max_resources = 2
    /\ tret = "False"
    /\ ~Colourable(2)

\* C5: after solve() returned False every task's resource field is None.
C5_AllNoneOnFailure ==
    (SchedDone /\ tret = "False") => \A p \in Positions : resource[p] = NoResource

\* C5 witness: a failed search that had assigned resources on the way.
C5_Witness ==
    /\ SchedDone
    /\ tret = "False"
    /\ assigned > 2
    /\ \A p \in Positions : resource[p] = NoResource

PairwiseDisjoint ==
    \A p \in Positions : \A q \in Positions :
        p # q => (tasks[p].end <= tasks[q].start \/ tasks[q].end <= tasks[p].start)

\* C6: on pairwise non-overlapping tasks (touching intervals included) and
\* K = 1, solve() returns True and every task holds resource 1.
C6_DisjointTasksOneResource ==
    (SchedDone /\ max_resources = 1 /\ PairwiseDisjoint) =>
        (tret = "True" /\ \A p \in Positions : resource[p] = 1)

\* C6 witness: the four touching tasks of main's TEST CASE 4 with K = 1.
C6_Witness ==
    /\ SchedDone
    /\ max_resources = 1
    /\ tasks = tasks4
    /\ PairwiseDisjoint
    /\ tret = "True"
    /\ \A p \in Positions : resource[p] = 1

\* find_all_solutions has returned; find_one_solution has returned.
FindAllDone == phase \in {"between", "one", "done"}
FindOneDone == phase = "done"

ItemPositions == 1 .. Len(items)

RECURSIVE SumOver(_, _)
SumOver(f, S) ==
    IF S = {} THEN 0
    ELSE LET x == CHOOSE y \in S : TRUE
         IN  f[x] + SumOver(f, S \ {x})

\* The quantity vector a combination stands for: for each item the
\* quantities of the entries (name, qty, subtotal) that carry its name.
QuantityVector(combo) ==
    [p \in ItemPositions |->
        SumOver([k \in 1 .. Len(combo) |-> combo[k][2]],
                { k \in 1 .. Len(combo) : combo[k][1] = items[p].name })]

\* The cap on an item's quantity as section 4.3 states it: max_quantity if
\* positive, else floor(budget / price) + 1.
QuantityCap(item) ==
    IF item.max_quantity > 0 THEN item.max_quantity ELSE (budget \div item.price) + 1

VectorCost(q) == SumOver([p \in ItemPositions |-> q[p] * items[p].price], ItemPositions)
VectorCount(q) == SumOver(q, ItemPositions)

Feasible(q) ==
    /\ \A p \in ItemPositions : q[p] >= 0 /\ q[p] <= QuantityCap(items[p])
    /\ VectorCost(q) <= budget
    /\ VectorCount(q) >= min_items

\* A returned pair (combination, total cost) is sound.
SoundSolution(sol) ==
    /\ Feasible(QuantityVector(sol[1]))
    /\ SumOver([k \in 1 .. Len(sol[1]) |-> sol[1][k][2]], 1 .. Len(sol[1]))
           = VectorCount(QuantityVector(sol[1]))
    /\ sol[2] = SumOver([k \in 1 .. Len(sol[1]) |-> sol[1][k][3]], 1 .. Len(sol[1]))

\* C7: every combination returned by find_all_solutions or find_one_solution
\* costs at most the budget, holds at least min_items items, keeps every
\* quantity within [0, effective maximum], and is recorded with a total cost
\* equal to the sum of its entries' subtotals.
C7_ReturnedCombinationsSound ==
    /\ FindAllDone => \A k \in 1 .. Len(all_result) : SoundSolution(all_result[k])
    /\ (FindOneDone /\ one_result # None) => SoundSolution(one_result)

\* C7 witness: both calls returned combinations, one of them with entries
\* for two items.
C7_Witness ==
    /\ FindOneDone
    /\ one_result # None
    /\ one_result[1] # <<>>
    /\ \E k \in 1 .. Len(all_result) : Len(all_result[k][1]) >= 2
    /\ \A k \in 1 .. Len(all_result) : SoundSolution(all_result[k])

LargestCap == IF ItemPositions = {} THEN 0
          ELSE CHOOSE c \in { QuantityCap(items[p]) : p \in ItemPositions } :
                   \A p \in ItemPositions : QuantityCap(items[p]) <= c

\* Every feasible quantity vector, enumerated without any search.
BruteForce == { q \in [ItemPositions -> 0 .. LargestCap] : Feasible(q) }

\* C8: find_all_solutions returns every feasible quantity vector exactly
\* once: the returned combinations stand for exactly the brute-force set of
\* feasible vectors, and no element of the returned list occurs twice.
C8_AllFeasibleVectorsOnce ==
    FindAllDone =>
        /\ { QuantityVector(all_result[k][1]) : k \in 1 .. Len(all_result) } = BruteForce
        /\ Len(all_result) = Cardinality(BruteForce)
        /\ \A k \in 1 .. Len(all_result) : \A l \in 1 .. Len(all_result) :
               k # l => all_result[k] # all_result[l]

\* C8 witness: the three unlimited items of main's TEST CASE 4, enumerated.
C8_Witness ==
    /\ FindAllDone
    /\ items = items4
    /\ Len(all_result) > 10
    /\ Len(all_result) = Cardinality(BruteForce)

ImpossibleBudget ==
    /\ \A p \in ItemPositions : items[p].price > budget
    /\ min_items >= 1

\* C9: when every item's price exceeds the budget and min_items >= 1,
\* find_all_solutions returns the empty list and find_one_solution None.
C9_ImpossibleBudgetEmpty ==
    /\ (FindAllDone /\ ImpossibleBudget) => all_result = <<>>
    /\ (FindOneDone /\ ImpossibleBudget) => one_result = None

\* C9 witness: main's TEST CASE 3, both calls returned.
C9_Witness ==
    /\ FindOneDone
    /\ ImpossibleBudget
    /\ items = items3
    /\ all_result = <<>>
    /\ one_result = None

\* C10: find_one_solution returns None exactly when find_all_solutions
\* returns the empty list, and otherwise returns the first element of that
\* list (combination and cost).
C10_FindOneIsFirstOfFindAll ==
    FindOneDone =>
        /\ (one_result = None) <=> (all_result = <<>>)
        /\ all_result # <<>> => one_result = all_result[1]

\* C10 witness: on TEST CASE 4's items the first search rejects quantities
\* before it accepts the combination that heads find_all's list.
C10_Witness ==
    /\ FindOneDone
    /\ items = items4
    /\ Len(all_result) > 1
    /\ one_result = all_result[1]
    /\ one_result[1] # <<>>

\* count_all_solutions has returned to the client.
CountDone == count_called /\ sstack = <<>>

\* The valid completions of a grid: the solved grids that agree with it on
\* its non-zero cells. A solved row holds every value once, so the candidate
\* fills give an empty cell only values its row does not hold yet.
RowMissing(b, i) == (1 .. 9) \ { b[i][j] : j \in Idx }

RECURSIVE FillsOf(_)
FillsOf(b) ==
    IF EmptyCells(b) = {} THEN {b}
    ELSE LET c == CHOOSE e \in EmptyCells(b) : TRUE
         IN  UNION { FillsOf([b EXCEPT ![c[1]][c[2]] = v]) : v \in RowMissing(b, c[1]) }

ValidCompletions(b) == { g \in FillsOf(b) : Solved(g) }

Min(a, b) == IF a <= b THEN a ELSE b

\* min(cap, n), and n when the cap is None.
Capped(n) == IF max_solutions = NoLimit THEN n ELSE Min(max_solutions[1], n)

\* C11 as stated: count_all_solutions ends with the counter equal to
\* min(cap, number of valid completions of the grid), whatever the grid.
C11_Original ==
    (CountDone /\ board0 \in SmallBoards)
        => solution_count = Capped(Cardinality(ValidCompletions(board0)))

\* C11 amended: the counter never exceeds the cap; on a grid in which no
\* non-zero value is repeated in a row, column or block, count_all_solutions
\* started with the counter at 0 ends with the counter equal to
\* min(cap, number of valid completions), the full number when the cap is
\* None; main's known_puzzle has one completion, so that a cap of 2 or more
\* leaves the counter at exactly 1.
C11_CounterIsCappedCompletionCount ==
    /\ max_solutions # NoLimit => solution_count <= max_solutions[1]
    /\ (CountDone /\ LocallyValid(board0)) =>
           IF board0 = Grid(known_puzzle)
           THEN solution_count = Capped(1)
           ELSE solution_count = Capped(Cardinality(ValidCompletions(board0)))

\* C11 witness: a locally valid grid with four completions counted with a
\* cap of 2: the counter stops at 2.
C11_Witness ==
    /\ CountDone
    /\ LocallyValid(board0)
    /\ board0 \in SmallBoards
    /\ Cardinality(ValidCompletions(board0)) = 4
    /\ max_solutions = Limit(2)
    /\ solution_count = 2

\* C14: when count_all_solutions returns, whatever the cap, the grid equals
\* its pre-call state cell for cell; every grid recorded in all_solutions is,
\* and stays while the frames unwind, a full grid that extends the pre-call
\* grid.
C14_GridRestoredSolutionsFull ==
    /\ CountDone => board = board0
    /\ \A k \in 1 .. Len(all_solutions) :
           /\ EmptyCells(all_solutions[k]) = {}
           /\ \A c \in Idx \X Idx :
                  board0[c[1]][c[2]] # 0 =>
                      all_solutions[k][c[1]][c[2]] = board0[c[1]][c[2]]
    /\ Len(all_solutions) = solution_count

\* C14 witness: the cap of 1 was reached while frames were active on a grid
\* with empty cells; the call has returned, the grid is restored and one
\* full grid is recorded.
C14_Witness ==
    /\ CountDone
    /\ max_solutions = Limit(1)
    /\ solution_count = 1
    /\ EmptyCells(board0) # {}
    /\ undone > 1
    /\ board = board0
    /\ EmptyCells(all_solutions[1]) = {}

\* generate_puzzle has returned to the client.
GenDone == gen_pc = "returned"

NonZeroCells(b) == (Idx \X Idx) \ EmptyCells(b)

\* C12 as stated: generate_puzzle(17, ensure_solvable=True) returns, whatever
\* the random draws, a grid with exactly 17 non-zero cells on which
\* solve_sudoku succeeds.
C12_Original ==
    (GenDone /\ ensure_solvable /\ num_filled = 17) =>
        /\ Cardinality(NonZeroCells(gen_board)) = 17
        /\ gen_exit = "verified"

\* C12 amended: generate_puzzle(n, ensure_solvable=True) returns either from
\* inside one of its max_tries rounds, and then the grid has exactly n
\* non-zero cells and solve_sudoku succeeded on a copy of it, or, when every
\* round failed, the last constructed grid, which is locally valid and has
\* at most n non-zero cells but may have fewer than n or have no completion.
C12_VerifiedOrFallback ==
    (GenDone /\ ensure_solvable) =>
        /\ gen_exit \in {"verified", "fallback"}
        /\ gen_exit = "verified" =>
               /\ Cardinality(NonZeroCells(gen_board)) = num_filled
               /\ tries <= max_tries
               /\ board0 = gen_board
               /\ sret = "True"
               /\ Solved(board)
        /\ gen_exit = "fallback" =>
               /\ tries = max_tries
               /\ Cardinality(NonZeroCells(gen_board)) <= num_filled
               /\ LocallyValid(gen_board)

\* C12 witness: the second round built a grid with the asked number of
\* cells on which solve_sudoku succeeded after taking back some values.
C12_Witness ==
    /\ GenDone
    /\ ensure_solvable
    /\ gen_exit = "verified"
    /\ tries = 2
    /\ Cardinality(NonZeroCells(gen_board)) = num_filled
    /\ num_filled > 0
    /\ undone > 0
    /\ Solved(board)

\* The trial mutations that are in place, and the invocations that have made
\* one and have not returned yet (the frames waiting for their recursive
\* call).
GridOutstanding == Cardinality(EmptyCells(board0)) - Cardinality(EmptyCells(board))
GridActive == Cardinality({ k \in 1 .. Len(sstack) : sstack[k].pc = "wait" })

SchedOutstanding == Cardinality({ p \in 1 .. Len(resource) : resource[p] # NoResource })
SchedActive == Cardinality({ k \in 1 .. Len(tstack) : tstack[k].pc = "wait" })

ShopOutstanding == Len(current_combo)
ShopActive ==
    Cardinality({ k \in 1 .. Len(cstack) : cstack[k].pc = "wait" /\ cstack[k].qty > 0 })

\* C13 as stated: in every search each trial mutation is undone exactly once
\* on every exit path of the call that made it, so that the mutations in
\* place are always those of the calls still active.
C13_Original ==
    /\ client \in {"solve_sudoku", "count_all_solutions"} =>
           /\ GridOutstanding = placed - undone
           /\ GridOutstanding = GridActive
    /\ client = "solve" =>
           /\ SchedOutstanding = assigned - unassigned
           /\ SchedOutstanding = SchedActive
    /\ client = "find_solutions" => ShopOutstanding = ShopActive

\* C13 amended: each trial mutation is undone exactly once when the call
\* that made it goes on to its next candidate, so that a call that fails, and
\* every call of count_all_solutions and solve_all_combinations, leaves no
\* mutation of its own behind. A call of solve_sudoku, solve_backtracking
\* or solve_first_combination that returns True does not undo its mutation:
\* after a successful search every empty cell, every task, every chosen
\* item still carries the value tried last.
C13_UndoUnlessSuccess ==
    /\ client \in {"solve_sudoku", "count_all_solutions"} =>
           /\ GridOutstanding = placed - undone
           /\ IF sret = "True"
              THEN GridOutstanding = Cardinality(EmptyCells(board0))
              ELSE GridOutstanding = GridActive
    /\ client = "solve" =>
           /\ SchedOutstanding = assigned - unassigned
           /\ IF tret = "True"
              THEN SchedOutstanding = Len(tasks)
              ELSE SchedOutstanding = SchedActive
    /\ client = "find_solutions" =>
           IF phase \in {"one", "done"} /\ cret = "True"
           THEN current_combo = solutions[1][1]
           ELSE ShopOutstanding = ShopActive

\* C13 witness: a successful solve_sudoku that took values back on the way
\* and whose remaining assignments are all in place at the return.
C13_Witness ==
    /\ client = "solve_sudoku"
    /\ SudokuDone
    /\ sret = "True"
    /\ undone > 1
    /\ placed - undone = Cardinality(EmptyCells(board0))
    /\ EmptyCells(board) = {}

\* b agrees with g on the non-zero cells of b.
Extends(g, b) ==
    \A c \in Idx \X Idx : b[c[1]][c[2]] # 0 => g[c[1]][c[2]] = b[c[1]][c[2]]

\* C15: on a grid in which no non-zero value is repeated in a row, column or
\* block, solve_sudoku returns True if and only if the grid has a valid
\* completion. On the grids with few empty cells the completions are
\* enumerated; on the others a True comes with a completion (the solved
\* grid itself) and a grid that the completion of known_puzzle extends is
\* never answered False.
C15_TrueIffCompletionExists ==
    (SudokuDone /\ LocallyValid(board0)) =>
        /\ sret = "True" => (Solved(board) /\ Extends(board, board0))
        /\ Extends(Grid(Completion), board0) => sret = "True"
        /\ board0 \in SmallBoards => (sret = "True" <=> ValidCompletions(board0) # {})

\* C15 witness: on a locally valid grid that has no completion solve_sudoku
\* placed values, took them back and returned False.
C15_Witness ==
    /\ SudokuDone
    /\ LocallyValid(board0)
    /\ board0 \in SmallBoards
    /\ EmptyCells(board0) # {}
    /\ ValidCompletions(board0) = {}
    /\ sret = "False"
    /\ undone > 1

\* The task indices of Python, and the set of neighbours listed for one.
TaskIndices == 0 .. (Len(tasks) - 1)
Neighbours(i) == { conflict_graph[i][k] : k \in 1 .. Len(conflict_graph[i]) }

\* C16: for distinct task indices i and j, j is listed in conflict_graph[i]
\* exactly when not (end_i <= start_j or end_j <= start_i); the relation is
\* symmetric, without self-loops, and lists no neighbour twice; during solve
\* the graph stays the one built at construction.
C16_ConflictGraphIsOverlapRelation ==
    /\ DOMAIN conflict_graph = TaskIndices
    /\ \A i \in TaskIndices : \A j \in TaskIndices :
           i # j =>
               (j \in Neighbours(i) <=>
                    ~(tasks[i + 1].end <= tasks[j + 1].start
                          \/ tasks[j + 1].end <= tasks[i + 1].start))
    /\ \A i \in TaskIndices : \A j \in TaskIndices :
           j \in Neighbours(i) <=> i \in Neighbours(j)
    /\ \A i \in TaskIndices : i \notin Neighbours(i)
    /\ \A i \in TaskIndices : Cardinality(Neighbours(i)) = Len(conflict_graph[i])
    /\ conflict_graph = build_conflict_graph(tasks)

\* C16 witness: solve has assigned and taken back resources on a task list
\* with an overlapping pair and with a pair that only touches (the end of
\* one is the start of the other), which is not listed.
C16_Witness ==
    /\ SchedDone
    /\ assigned > 0
    /\ unassigned > 0
    /\ \E i \in TaskIndices : \E j \in TaskIndices : i # j /\ j \in Neighbours(i)
    /\ \E i \in TaskIndices : \E j \in TaskIndices :
           /\ i # j
           /\ tasks[i + 1].end = tasks[j + 1].start
           /\ j \notin Neighbours(i)
           /\ i \notin Neighbours(j)

\* Every cell holds a value of 0..9.
CellsInRange(b) == \A c \in Idx \X Idx : b[c[1]][c[2]] \in 0 .. 9

\* The 27 units of the grid: rows, columns and blocks, as sets of cells. A grid
\* repeats no non-zero value in a unit when the filled cells of each unit
\* hold as many values as there are filled cells.
Units ==
    { { <<i, j>> : j \in Idx } : i \in Idx }
        \cup { { <<i, j>> : i \in Idx } : j \in Idx }
        \cup { { <<Box * bi + i, Box * bj + j>> : i \in 0 .. (Box - 1), j \in 0 .. (Box - 1) }
                   : bi \in 0 .. (Box - 1), bj \in 0 .. (Box - 1) }

UnitsDistinct(b) ==
    \A u \in Units :
        LET filledCells == { c \in u : b[c[1]][c[2]] # 0 }
        IN  Cardinality({ b[c[1]][c[2]] : c \in filledCells }) = Cardinality(filledCells)

\* C17: starting from a grid in which no non-zero value is repeated in a
\* row, column or block, every grid state reached during solve_sudoku,
\* count_all_solutions and generate_puzzle (self.board, and the copy handed
\* to solve_sudoku) keeps that property, and every cell stays in 0..9.
C17_GridStaysLocallyValid ==
    /\ (client \in {"solve_sudoku", "count_all_solutions"} /\ UnitsDistinct(board0)) =>
           (CellsInRange(board) /\ UnitsDistinct(board))
    /\ client = "generate_puzzle" =>
           /\ CellsInRange(gen_board) /\ UnitsDistinct(gen_board)
           /\ board # <<>> => (CellsInRange(board) /\ UnitsDistinct(board))

\* C17 witness: count_all_solutions in the middle of its search on a locally
\* valid grid, several trial values in place and some already taken back.
C17_Witness ==
    /\ client = "count_all_solutions"
    /\ LocallyValid(board0)
    /\ sstack # <<>>
    /\ placed - undone > 2
    /\ undone > 0
    /\ board # board0
    /\ LocallyValid(board)

====
